---- MODULE Spec2Model ----
(***************************************************************************)
(* A model of dicom-json (src/src/main.rs): file discovery, the per-file   *)
(* extractor with its value normalizer, the sequential and the parallel    *)
(* scheduler, the hierarchy aggregator, the Basic renderer and the writer. *)
(* The dataset decoder, the directory walker and the filesystem are the    *)
(* environment: what they return is an input drawn from small sets.        *)
(***************************************************************************)
EXTENDS Integers, Sequences, FiniteSets, TLC

VARIABLES
    cli,        \* Cli: the options main() reads
    root,       \* the filesystem object the INPUT argument names
    pc,         \* position of main()
    files,      \* Vec<PathBuf> returned by collect_dicom_files
    idx,        \* process_files_sequential: number of files already iterated
    slots,      \* process_files_parallel: per-index outcome of the filter_map closure
    results,    \* Vec<DicomInstance> returned by the scheduler
    handed,     \* paths passed to DicomProcessor::process_file so far
    studies,    \* organize_by_hierarchy: HashMap<String, DicomStudy>
    hidx,       \* organize_by_hierarchy: number of results already grouped
    nextId,     \* source of fresh processing ids (Uuid::new_v4)
    written,    \* files written under the output directory: path -> document
    exit,       \* result of main(): "running", "ok" or "error"
    elem,       \* value normalizer: the element under conversion
    conv        \* value normalizer: the (value, raw_value) pair produced

vars == <<cli, root, pc, files, idx, slots, results, handed, studies, hidx,
          nextId, written, exit, elem, conv>>

(***************************************************************************)
(* Bounds of the model.                                                    *)
(***************************************************************************)
MaxLen == 3         \* longest value vector / sequence item count
MaxFiller == 10     \* most additional public elements in a generated dataset
MaxFiles == 3       \* most candidate files in a scheduler run
MaxEntries == 2     \* most directory entries in a walked tree
MaxResults == 3     \* longest result list handed to the aggregator

(***************************************************************************)
(* Option<T>, Result and serde_json::Value.                                *)
(***************************************************************************)
None == <<>>
Some(x) == <<x>>

JStr(s) == [t |-> "string", s |-> s]
JNum(n) == [t |-> "number", n |-> n]
JNull == [t |-> "null"]
JArr(a) == [t |-> "array", a |-> a]

OutputFormats == {"Basic", "Comprehensive", "Medical", "Raw"}

(***************************************************************************)
(* Text formatting.                                                        *)
(***************************************************************************)
HexDigit(d) ==
    CASE d = 0 -> "0" [] d = 1 -> "1" [] d = 2 -> "2" [] d = 3 -> "3"
      [] d = 4 -> "4" [] d = 5 -> "5" [] d = 6 -> "6" [] d = 7 -> "7"
      [] d = 8 -> "8" [] d = 9 -> "9" [] d = 10 -> "A" [] d = 11 -> "B"
      [] d = 12 -> "C" [] d = 13 -> "D" [] d = 14 -> "E" [] d = 15 -> "F"

\* format!("{:04X}", n) for a u16
Hex4(n) ==
    HexDigit((n \div 4096) % 16) \o HexDigit((n \div 256) % 16)
      \o HexDigit((n \div 16) % 16) \o HexDigit(n % 16)

\* format!("({:04X},{:04X})", tag.group(), tag.element())
TagString(tag) == "(" \o Hex4(tag.group) \o "," \o Hex4(tag.element) \o ")"

RECURSIVE NatToStr(_)
NatToStr(n) ==
    IF n < 10 THEN HexDigit(n) ELSE NatToStr(n \div 10) \o HexDigit(n % 10)

IntToStr(i) == IF i < 0 THEN "-" \o NatToStr(0 - i) ELSE NatToStr(i)

Pad2(n) == IF n < 10 THEN "0" \o NatToStr(n) ELSE NatToStr(n)

Pad4(n) ==
    IF n < 10 THEN "000" \o NatToStr(n)
    ELSE IF n < 100 THEN "00" \o NatToStr(n)
    ELSE IF n < 1000 THEN "0" \o NatToStr(n)
    ELSE NatToStr(n)

DateToString(d) == Pad4(d.y) \o "-" \o Pad2(d.m) \o "-" \o Pad2(d.d)
TimeToString(tm) == Pad2(tm.h) \o ":" \o Pad2(tm.mi)
DateTimeToString(dt) == DateToString(dt) \o " " \o TimeToString(dt)

RECURSIVE Join(_, _)
Join(strs, sep) ==
    IF Len(strs) = 0 THEN ""
    ELSE IF Len(strs) = 1 THEN strs[1]
    ELSE strs[1] \o sep \o Join(Tail(strs), sep)

MapSeq(Op(_), s) == [i \in 1..Len(s) |-> Op(s[i])]

(***************************************************************************)
(* dicom_core::value::PrimitiveValue as the decoder hands it over:         *)
(* [variant, vals].  Floats are [finite, n]; dates [y, m, d]; times        *)
(* [h, mi]; datetimes [y, m, d, h, mi]; tags [group, element].             *)
(***************************************************************************)
IntVariants == {"U8", "U16", "U32", "I16", "I32", "I64", "U64"}
FloatVariants == {"F32", "F64"}
StringVariants == {"Str", "Strs"}
DateVariants == {"Date", "Time", "DateTime"}
Variants ==
    IntVariants \cup FloatVariants \cup StringVariants \cup DateVariants
      \cup {"Tags", "Empty"}

FloatText(f) == IF f.finite THEN IntToStr(f.n) \o ".0" ELSE "NaN"

\* the text of one entry of a primitive value
ItemText(variant, v) ==
    CASE variant \in IntVariants -> IntToStr(v)
      [] variant \in FloatVariants -> FloatText(v)
      [] variant \in StringVariants -> v
      [] variant = "Date" -> DateToString(v)
      [] variant = "Time" -> TimeToString(v)
      [] variant = "DateTime" -> DateTimeToString(v)
      [] variant = "Tags" -> TagString(v)

\* format!("{:?}", primitive)
DebugPrimitive(p) ==
    IF p.variant = "Empty" THEN "Empty"
    ELSE IF p.variant = "Str" THEN "Str(\"" \o p.vals[1] \o "\")"
    ELSE p.variant \o "(["
           \o Join([i \in 1..Len(p.vals) |->
                      IF p.variant = "Strs"
                      THEN "\"" \o p.vals[i] \o "\""
                      ELSE ItemText(p.variant, p.vals[i])], ", ")
           \o "])"

\* format!("{:?}", element.value())
DebugValue(value) ==
    CASE value.kind = "Primitive" -> "Primitive(" \o DebugPrimitive(value.prim) \o ")"
      [] value.kind = "Sequence" ->
            "Sequence(items: " \o NatToStr(value.items) \o ")"
      [] value.kind = "PixelSequence" ->
            "PixelSequence(fragments: " \o NatToStr(value.items) \o ")"

\* element.to_str(): the decoder's native conversion.  Whether it succeeds
\* is the decoder's outcome (strOk); it never succeeds for a sequence.
ToStr(element) ==
    IF element.value.kind = "Primitive" /\ element.strOk
    THEN Some(Join([i \in 1..Len(element.value.prim.vals) |->
                      ItemText(element.value.prim.variant,
                               element.value.prim.vals[i])], "\\"))
    ELSE None

\* serde_json::json!(f) for a float: a non-finite float becomes null
JsonFloat(f) == IF f.finite THEN JNum(f.n) ELSE JNull

(***************************************************************************)
(* DicomProcessor::convert_primitive_value                                 *)
(***************************************************************************)
\* the "len() == 1 ? scalar : array" shape shared by the arms
Collapse(vals, Scalar(_)) ==
    IF Len(vals) = 1 THEN Scalar(vals[1]) ELSE JArr(MapSeq(Scalar, vals))

JsonTagString(tag) == JStr(TagString(tag))
JsonDate(d) == JStr(DateToString(d))
JsonTime(tm) == JStr(TimeToString(tm))
JsonDateTime(dt) == JStr(DateTimeToString(dt))

convert_primitive_value(primitive) ==
    CASE primitive.variant \in {"U8", "U16", "U32", "I16", "I32"} ->
            Collapse(primitive.vals, JNum)
      [] primitive.variant \in {"F32", "F64"} ->
            Collapse(primitive.vals, JsonFloat)
      [] primitive.variant = "Str" -> JStr(primitive.vals[1])
      [] primitive.variant = "Strs" -> Collapse(primitive.vals, JStr)
      [] primitive.variant = "Tags" ->
            JArr(MapSeq(JsonTagString, primitive.vals))
      [] primitive.variant = "Date" -> Collapse(primitive.vals, JsonDate)
      [] primitive.variant = "Time" -> Collapse(primitive.vals, JsonTime)
      [] primitive.variant = "DateTime" ->
            Collapse(primitive.vals, JsonDateTime)
      [] OTHER -> JStr(DebugPrimitive(primitive))

(***************************************************************************)
(* DicomProcessor::extract_element_value: the pair (value, raw_value)      *)
(***************************************************************************)
SequenceItem(i) == JStr("Sequence Item " \o NatToStr(i))

\* seq.length().get().unwrap_or(0): length() is the Length the sequence's
\* element declares, in bytes, and get() is None when it is undefined
SequenceLength(value) == IF value.size # None THEN value.size[1] ELSE 0

extract_element_value(format, element) ==
    IF format = "Raw"
    THEN [value |-> JStr(DebugValue(element.value)),
          raw_value |-> Some(DebugValue(element.value))]
    ELSE [value |->
            IF ToStr(element) # None THEN JStr(ToStr(element)[1])
            ELSE CASE element.value.kind = "Primitive" ->
                        convert_primitive_value(element.value.prim)
                   [] element.value.kind = "Sequence" ->
                        JArr([i \in 1..SequenceLength(element.value) |->
                                SequenceItem(i)])
                   [] OTHER -> JStr(DebugValue(element.value)),
          raw_value |-> ToStr(element)]

(***************************************************************************)
(* dicom_dictionary_std: the well-known tags the program names, and the    *)
(* aliases StandardDataDictionary.by_tag gives for them.                   *)
(***************************************************************************)
Tag(group, element) == [group |-> group, element |-> element]

SOP_CLASS_UID == Tag(8, 22)
SOP_INSTANCE_UID == Tag(8, 24)
STUDY_DATE == Tag(8, 32)
STUDY_TIME == Tag(8, 48)
MODALITY == Tag(8, 96)
STUDY_DESCRIPTION == Tag(8, 4144)
SERIES_DESCRIPTION == Tag(8, 4158)
PATIENT_NAME == Tag(16, 16)
PATIENT_ID == Tag(16, 32)
PATIENT_BIRTH_DATE == Tag(16, 48)
PATIENT_SEX == Tag(16, 64)
PATIENT_AGE == Tag(16, 4112)
STUDY_INSTANCE_UID == Tag(32, 13)
SERIES_INSTANCE_UID == Tag(32, 14)
SERIES_NUMBER == Tag(32, 17)
INSTANCE_NUMBER == Tag(32, 19)
PIXEL_DATA == Tag(32736, 16)

by_tag(tag) ==
    CASE tag = SOP_CLASS_UID -> Some("SOPClassUID")
      [] tag = SOP_INSTANCE_UID -> Some("SOPInstanceUID")
      [] tag = STUDY_DATE -> Some("StudyDate")
      [] tag = STUDY_TIME -> Some("StudyTime")
      [] tag = MODALITY -> Some("Modality")
      [] tag = STUDY_DESCRIPTION -> Some("StudyDescription")
      [] tag = SERIES_DESCRIPTION -> Some("SeriesDescription")
      [] tag = PATIENT_NAME -> Some("PatientName")
      [] tag = PATIENT_ID -> Some("PatientID")
      [] tag = PATIENT_BIRTH_DATE -> Some("PatientBirthDate")
      [] tag = PATIENT_SEX -> Some("PatientSex")
      [] tag = PATIENT_AGE -> Some("PatientAge")
      [] tag = STUDY_INSTANCE_UID -> Some("StudyInstanceUID")
      [] tag = SERIES_INSTANCE_UID -> Some("SeriesInstanceUID")
      [] tag = SERIES_NUMBER -> Some("SeriesNumber")
      [] tag = INSTANCE_NUMBER -> Some("InstanceNumber")
      [] tag = PIXEL_DATA -> Some("PixelData")
      [] OTHER -> None

(***************************************************************************)
(* DicomProcessor::create_tag_info                                         *)
(***************************************************************************)
create_tag_info(config, element) ==
    [tag |-> TagString(element.tag),
     vr |-> element.vr,
     name |-> IF config.format \in {"Basic", "Raw"} THEN None
              ELSE by_tag(element.tag),
     value |-> extract_element_value(config.format, element).value,
     raw_value |-> extract_element_value(config.format, element).raw_value,
     is_private |-> element.tag.group % 2 = 1]

(***************************************************************************)
(* DicomProcessor::process_file.  A file is [path, obj]: obj is None when  *)
(* the decoder cannot open it, else Some([transfer_syntax, elems]) with    *)
(* elems the dataset's elements in the decoder's order (unique tags).      *)
(***************************************************************************)
\* a variant that drops private elements whatever the flag says
SkipElementIgnoringFlag(config, element) == element.tag.group % 2 = 1

\* the test that makes the element loop `continue`
SkipElement(config, element) ==
    ~config.include_private /\ element.tag.group % 2 = 1

Insert(map, key, value) == (key :> value) @@ map

\* metadata after the element loop has run over the first k elements
RECURSIVE MetadataAfter(_, _, _)
MetadataAfter(config, obj, k) ==
    IF k = 0
    THEN [tags |-> <<>>,
          transfer_syntax |-> Some(obj.transfer_syntax),
          sop_class_uid |-> None,
          file_meta_information |-> <<>>]
    ELSE LET prev == MetadataAfter(config, obj, k - 1)
             element == obj.elems[k]
         IN IF SkipElement(config, element) THEN prev
            ELSE [prev EXCEPT
                    !.tags = Insert(prev.tags, TagString(element.tag),
                                    create_tag_info(config, element)),
                    !.sop_class_uid =
                        IF element.tag = SOP_CLASS_UID /\ ToStr(element) # None
                        THEN Some(ToStr(element)[1])
                        ELSE prev.sop_class_uid]

\* obj.element_opt(tag): Result<Option<&element>>, Ok(None) when the
\* dataset has no element with this tag
element_opt(obj, tag) ==
    [ok |-> TRUE,
     val |-> IF \E i \in 1..Len(obj.elems) : obj.elems[i].tag = tag
             THEN Some(obj.elems[CHOOSE i \in 1..Len(obj.elems) :
                                    obj.elems[i].tag = tag])
             ELSE None]

\* element_opt(tag).ok().flatten().and_then(|e| e.to_str().ok())
OptStr(obj, tag) ==
    IF element_opt(obj, tag).ok /\ element_opt(obj, tag).val # None
    THEN ToStr(element_opt(obj, tag).val[1])
    ELSE None

HasPixelData(obj) == element_opt(obj, PIXEL_DATA).ok

process_file(config, file) ==
    IF file.obj = None THEN [ok |-> FALSE]
    ELSE LET obj == file.obj[1]
         IN [ok |-> TRUE,
             instance |->
               [sop_instance_uid |->
                    IF OptStr(obj, SOP_INSTANCE_UID) # None
                    THEN OptStr(obj, SOP_INSTANCE_UID)[1] ELSE "unknown",
                instance_number |-> OptStr(obj, INSTANCE_NUMBER),
                file_path |-> file.path,
                metadata |-> MetadataAfter(config, obj, Len(obj.elems)),
                has_pixel_data |-> HasPixelData(obj)]]

(***************************************************************************)
(* get_tag_value                                                           *)
(***************************************************************************)
get_tag_value(tags, tag) ==
    IF TagString(tag) \in DOMAIN tags THEN tags[TagString(tag)].raw_value
    ELSE None

(***************************************************************************)
(* The flat renderers.  HashMap and HashSet iteration order is unspecified:*)
(* a renderer that depends on it yields the set of documents it can build. *)
(***************************************************************************)
BasicTagLimit == 10

Min(a, b) == IF a < b THEN a ELSE b

\* .filter(|(_, tag_info)| !tag_info.is_private)
BasicFilter(tag_info) == ~tag_info.is_private

\* a variant without the take(10)
BasicTagKeysUncapped(tags) == {{k \in DOMAIN tags : BasicFilter(tags[k])}}

\* the key sets .filter(..).take(10) can let through
BasicTagKeys(tags) ==
    LET public == {k \in DOMAIN tags : BasicFilter(tags[k])}
    IN {S \in SUBSET public :
          Cardinality(S) = Min(BasicTagLimit, Cardinality(public))}

BasicInstances(instance) ==
    {[file_path |-> instance.file_path,
      sop_instance_uid |-> instance.sop_instance_uid,
      tags |-> [k \in S |-> instance.metadata.tags[k].value]] :
        S \in BasicTagKeys(instance.metadata.tags)}

create_basic_output(rs) ==
    {[format |-> "basic", total_files |-> Len(rs), instances |-> insts] :
        insts \in {q \in [1..Len(rs) -> UNION {BasicInstances(rs[i]) : i \in 1..Len(rs)}] :
                     \A i \in 1..Len(rs) : q[i] \in BasicInstances(rs[i])}}

UniqueModalities(rs) ==
    {get_tag_value(rs[i].metadata.tags, MODALITY)[1] :
        i \in {j \in 1..Len(rs) :
                 get_tag_value(rs[j].metadata.tags, MODALITY) # None}}

FilesWithPixelData(rs) == Cardinality({i \in 1..Len(rs) : rs[i].has_pixel_data})

\* ProcessingInfo { .. } as both call sites build it; the timestamp is left out
NewProcessingInfo(rs, id) ==
    [processing_id |-> id,
     version |-> "1.0.0",
     total_files |-> Len(rs),
     successful_files |-> Len(rs),
     failed_files |-> 0,
     extraction_summary |->
        [files_with_pixel_data |-> FilesWithPixelData(rs),
         unique_modalities |-> UniqueModalities(rs),
         date_range |-> None]]

create_comprehensive_output(rs, id) ==
    [format |-> "comprehensive",
     processing_info |-> NewProcessingInfo(rs, id),
     instances |-> rs]

extract_patient_info(tags) ==
    [patient_id |-> get_tag_value(tags, PATIENT_ID),
     patient_name |-> get_tag_value(tags, PATIENT_NAME),
     patient_birth_date |-> get_tag_value(tags, PATIENT_BIRTH_DATE),
     patient_sex |-> get_tag_value(tags, PATIENT_SEX),
     patient_age |-> get_tag_value(tags, PATIENT_AGE)]

MedicalInstance(instance) ==
    [file_path |-> instance.file_path,
     patient |-> extract_patient_info(instance.metadata.tags),
     study |-> [uid |-> get_tag_value(instance.metadata.tags, STUDY_INSTANCE_UID),
                date |-> get_tag_value(instance.metadata.tags, STUDY_DATE),
                time |-> get_tag_value(instance.metadata.tags, STUDY_TIME),
                description |->
                    get_tag_value(instance.metadata.tags, STUDY_DESCRIPTION)],
     series |-> [uid |-> get_tag_value(instance.metadata.tags, SERIES_INSTANCE_UID),
                 number |-> get_tag_value(instance.metadata.tags, SERIES_NUMBER),
                 description |->
                    get_tag_value(instance.metadata.tags, SERIES_DESCRIPTION),
                 modality |-> get_tag_value(instance.metadata.tags, MODALITY)],
     instance |-> [uid |-> instance.sop_instance_uid,
                   number |-> instance.instance_number,
                   has_pixel_data |-> instance.has_pixel_data],
     transfer_syntax |-> instance.metadata.transfer_syntax]

create_medical_output(rs) ==
    [format |-> "medical",
     summary |-> [total_instances |-> Len(rs),
                  files_with_images |-> FilesWithPixelData(rs),
                  unique_modalities |-> UniqueModalities(rs)],
     instances |-> MapSeq(MedicalInstance, rs)]

RawInstance(instance) ==
    [file |-> instance.file_path,
     tags |-> [k \in DOMAIN instance.metadata.tags |->
                 [vr |-> instance.metadata.tags[k].vr,
                  raw |-> instance.metadata.tags[k].raw_value,
                  private |-> instance.metadata.tags[k].is_private]]]

create_raw_output(rs) ==
    [format |-> "raw", instances |-> MapSeq(RawInstance, rs)]

\* the documents save_results can serialize for this format
FlatOutputs(format, rs, id) ==
    CASE format = "Basic" -> create_basic_output(rs)
      [] format = "Comprehensive" -> {create_comprehensive_output(rs, id)}
      [] format = "Medical" -> {create_medical_output(rs)}
      [] format = "Raw" -> {create_raw_output(rs)}

(***************************************************************************)
(* File discovery.  A file on disk is [path, ext, openable, len, magic,    *)
(* obj]: ext is path.extension() as a sequence of characters (None when    *)
(* the name has none), len the file's length, magic its bytes 128..131     *)
(* (read only when len >= 132), obj what the decoder makes of it.          *)
(***************************************************************************)
LowerChar(c) ==
    CASE c = "A" -> "a" [] c = "C" -> "c" [] c = "D" -> "d" [] c = "G" -> "g"
      [] c = "I" -> "i" [] c = "M" -> "m" [] c = "O" -> "o" [] c = "P" -> "p"
      [] c = "T" -> "t" [] c = "X" -> "x" [] c = "Z" -> "z" [] OTHER -> c

\* str::to_lowercase / eq_ignore_ascii_case on the characters in use
Lower(chars) == MapSeq(LowerChar, chars)

KnownExtensions ==
    {<<"d", "c", "m">>, <<"d", "i", "c", "o", "m">>, <<"i", "m", "a">>,
     <<"i", "m", "g">>}

DicomMagic == <<"D", "I", "C", "M">>

\* a variant that trusts the extension alone
is_likely_dicom_file_by_extension(file) ==
    file.ext # None /\ Lower(file.ext[1]) \in KnownExtensions

is_likely_dicom_file(file) ==
    IF file.ext # None /\ Lower(file.ext[1]) \in KnownExtensions THEN TRUE
    ELSE IF file.openable /\ file.len >= 132 THEN file.magic = DicomMagic
    ELSE FALSE

RECURSIVE Filter(_, _)
Filter(Keep(_), s) ==
    IF s = <<>> THEN <<>>
    ELSE IF Keep(Head(s)) THEN <<Head(s)>> \o Filter(Keep, Tail(s))
    ELSE Filter(Keep, Tail(s))

\* extract_zip_files: archive is [readable, entries], an entry
\* [is_dir, extracts, file]; any failure is returned with `?`
extract_zip_files(archive) ==
    IF ~archive.readable THEN [ok |-> FALSE, err |-> "error: archive"]
    ELSE IF \E i \in 1..Len(archive.entries) :
                ~archive.entries[i].is_dir /\ ~archive.entries[i].extracts
    THEN [ok |-> FALSE, err |-> "error: archive"]
    ELSE LET Wanted(entry) == ~entry.is_dir /\ is_likely_dicom_file(entry.file)
             EntryFile(entry) == entry.file
         IN [ok |-> TRUE,
             files |-> MapSeq(EntryFile, Filter(Wanted, archive.entries))]

\* WalkDir::new(input).max_depth(max_depth).into_iter().filter_map(|e| e.ok()):
\* the tree is the sequence of items the walk meets, each
\* [kind, depth, file], kind "error" standing for an Err item
WalkEntries(walk, max_depth) ==
    LET Yielded(item) == item.depth <= max_depth /\ item.kind # "error"
    IN Filter(Yielded, walk)

collect_dicom_files(input, max_depth) ==
    CASE input.kind = "file" ->
            IF input.file.ext # None /\ Lower(input.file.ext[1]) = <<"z", "i", "p">>
            THEN extract_zip_files(input.file.archive)
            ELSE [ok |-> TRUE, files |-> <<input.file>>]
      [] input.kind = "dir" ->
            LET Candidate(item) ==
                    item.kind = "file" /\ is_likely_dicom_file(item.file)
                ItemFile(item) == item.file
            IN [ok |-> TRUE,
                files |-> MapSeq(ItemFile,
                                 Filter(Candidate,
                                        WalkEntries(input.walk, max_depth)))]
      [] OTHER -> [ok |-> FALSE, err |-> "error: Input path does not exist"]

\* a variant of the check that never fires
NoFilesFoundIgnored(fs) == FALSE

\* main(): files.is_empty()
NoFilesFound(fs) == fs = <<>>

(***************************************************************************)
(* The hierarchy aggregator.  studies: study key -> DicomStudy, a study's  *)
(* series: series key -> DicomSeries.                                      *)
(***************************************************************************)
UnwrapOr(opt, default) == IF opt # None THEN opt[1] ELSE default

StudyKey(instance) ==
    UnwrapOr(get_tag_value(instance.metadata.tags, STUDY_INSTANCE_UID),
             "unknown_study")

SeriesKey(instance) ==
    UnwrapOr(get_tag_value(instance.metadata.tags, SERIES_INSTANCE_UID),
             "unknown_series")

\* a variant that inserts over an existing entry
EntryOrInsertOverwriting(map, key, fresh) == Insert(map, key, fresh)

\* map.entry(key).or_insert_with(|| fresh)
EntryOrInsert(map, key, fresh) ==
    IF key \in DOMAIN map THEN map ELSE Insert(map, key, fresh)

\* a variant whose totals cover the instances of this study only
NewStudyPerStudy(instance, study_uid, rs, id) ==
    LET SameStudy(r) == StudyKey(r) = study_uid
    IN [study_instance_uid |-> study_uid,
        study_date |-> get_tag_value(instance.metadata.tags, STUDY_DATE),
        study_time |-> get_tag_value(instance.metadata.tags, STUDY_TIME),
        study_description |->
            get_tag_value(instance.metadata.tags, STUDY_DESCRIPTION),
        patient_info |-> extract_patient_info(instance.metadata.tags),
        series |-> <<>>,
        processing_info |-> NewProcessingInfo(Filter(SameStudy, rs), id)]

NewStudy(instance, study_uid, rs, id) ==
    [study_instance_uid |-> study_uid,
     study_date |-> get_tag_value(instance.metadata.tags, STUDY_DATE),
     study_time |-> get_tag_value(instance.metadata.tags, STUDY_TIME),
     study_description |-> get_tag_value(instance.metadata.tags, STUDY_DESCRIPTION),
     patient_info |-> extract_patient_info(instance.metadata.tags),
     series |-> <<>>,
     processing_info |-> NewProcessingInfo(rs, id)]

\* a variant that creates the series with the instance already in it
NewSeriesSeeded(instance, series_uid) ==
    [series_instance_uid |-> series_uid,
     series_number |-> get_tag_value(instance.metadata.tags, SERIES_NUMBER),
     series_description |-> get_tag_value(instance.metadata.tags, SERIES_DESCRIPTION),
     modality |-> get_tag_value(instance.metadata.tags, MODALITY),
     instances |-> <<instance>>]

NewSeries(instance, series_uid) ==
    [series_instance_uid |-> series_uid,
     series_number |-> get_tag_value(instance.metadata.tags, SERIES_NUMBER),
     series_description |-> get_tag_value(instance.metadata.tags, SERIES_DESCRIPTION),
     modality |-> get_tag_value(instance.metadata.tags, MODALITY),
     instances |-> <<>>]

\* a variant that refreshes the descriptive fields of an existing study and
\* an existing series from the instance being grouped
GroupInstanceLastWins(map, instance, rs, id) ==
    LET study_uid == StudyKey(instance)
        series_uid == SeriesKey(instance)
        oldSeries == IF study_uid \in DOMAIN map THEN map[study_uid].series
                     ELSE <<>>
        oldInstances == IF series_uid \in DOMAIN oldSeries
                        THEN oldSeries[series_uid].instances ELSE <<>>
    IN Insert(map, study_uid,
              [NewStudy(instance, study_uid, rs, id) EXCEPT
                 !.series =
                    Insert(oldSeries, series_uid,
                           [NewSeries(instance, series_uid) EXCEPT
                              !.instances = Append(oldInstances, instance)])])

\* one iteration of the grouping loop
GroupInstance(map, instance, rs, id) ==
    LET study_uid == StudyKey(instance)
        series_uid == SeriesKey(instance)
        withStudy == EntryOrInsert(map, study_uid,
                                   NewStudy(instance, study_uid, rs, id))
        withSeries == EntryOrInsert(withStudy[study_uid].series, series_uid,
                                    NewSeries(instance, series_uid))
    IN [withStudy EXCEPT ![study_uid].series =
            [withSeries EXCEPT ![series_uid].instances = Append(@, instance)]]

\* the characters of the texts that can become a study key
QuoteChar == "\""

DebugStrChars(chars) ==
    <<"P", "r", "i", "m", "i", "t", "i", "v", "e", "(", "S", "t", "r", "(",
      QuoteChar>> \o chars \o <<QuoteChar, ")", ")">>

UidTexts == {<<"1", ".", "2">>, <<"1", "_", "2">>}

UnknownStudyChars ==
    <<"u", "n", "k", "n", "o", "w", "n", "_", "s", "t", "u", "d", "y">>

Text(chars) == Join(chars, "")

KeyTexts ==
    UidTexts \cup {DebugStrChars(u) : u \in UidTexts} \cup {UnknownStudyChars}

Chars(name) == CHOOSE chars \in KeyTexts : Text(chars) = name

Alphanumeric ==
    {"0", "1", "2", "3", "4", "5", "6", "7", "8", "9", "P", "S", "d", "e", "i",
     "k", "m", "n", "o", "r", "s", "t", "u", "v", "w", "y"}

SanitizeChar(c) == IF c \in Alphanumeric \/ c = "-" \/ c = "_" THEN c ELSE "_"

sanitize_filename(name) == Text(MapSeq(SanitizeChar, Chars(name)))

StudyFile(study_uid) == "study_" \o sanitize_filename(study_uid) \o "/study.json"

RECURSIVE SumOver(_, _)
SumOver(Count(_), S) ==
    IF S = {} THEN 0
    ELSE LET x == CHOOSE y \in S : TRUE IN Count(x) + SumOver(Count, S \ {x})

SeriesOf(study) == {study.series[k] : k \in DOMAIN study.series}

InstanceCount(series) == Len(series.instances)

ImagingCount(series) ==
    Cardinality({i \in 1..Len(series.instances) : series.instances[i].has_pixel_data})

TagCount(series) ==
    SumOver(LAMBDA i : Cardinality(DOMAIN series.instances[i].metadata.tags),
            1..Len(series.instances))

create_basic_study_output(study) ==
    [format |-> "basic",
     study_uid |-> study.study_instance_uid,
     study_date |-> study.study_date,
     series_count |-> Cardinality(DOMAIN study.series),
     total_instances |-> SumOver(InstanceCount, SeriesOf(study)),
     modalities |-> {x.modality[1] : x \in {y \in SeriesOf(study) : y.modality # None}}]

create_medical_study_output(study) ==
    [format |-> "medical",
     study |-> [uid |-> study.study_instance_uid,
                date |-> study.study_date,
                time |-> study.study_time,
                description |-> study.study_description],
     patient |-> study.patient_info,
     series |-> {[uid |-> x.series_instance_uid,
                  number |-> x.series_number,
                  description |-> x.series_description,
                  modality |-> x.modality,
                  instance_count |-> Len(x.instances),
                  has_images |-> ImagingCount(x) > 0] : x \in SeriesOf(study)},
     summary |-> [total_series |-> Cardinality(DOMAIN study.series),
                  total_instances |-> SumOver(InstanceCount, SeriesOf(study)),
                  imaging_instances |-> SumOver(ImagingCount, SeriesOf(study))]]

create_raw_study_output(study) ==
    [format |-> "raw",
     study_uid |-> study.study_instance_uid,
     files |-> UNION {{x.instances[i].file_path : i \in 1..Len(x.instances)} :
                        x \in SeriesOf(study)},
     tag_count |-> SumOver(TagCount, SeriesOf(study))]

StudyOutput(format, study) ==
    CASE format = "Basic" -> create_basic_study_output(study)
      [] format = "Medical" -> create_medical_study_output(study)
      [] format = "Raw" -> create_raw_study_output(study)
      [] format = "Comprehensive" -> study

(***************************************************************************)
(* Inputs of the value normalizer: decoded values over small domains.      *)
(***************************************************************************)
SeqsUpTo(S, n) == UNION {[1..k -> S] : k \in 0..n}

ItemsOf(variant) ==
    CASE variant \in IntVariants -> {0, 7}
      [] variant \in FloatVariants ->
            {[finite |-> TRUE, n |-> 1], [finite |-> FALSE, n |-> 0]}
      [] variant \in StringVariants -> {"CT", "MR"}
      [] variant = "Date" ->
            {[y |-> 2020, m |-> 1, d |-> 2], [y |-> 1999, m |-> 12, d |-> 31]}
      [] variant = "Time" -> {[h |-> 9, mi |-> 5], [h |-> 23, mi |-> 59]}
      [] variant = "DateTime" ->
            {[y |-> 2020, m |-> 1, d |-> 2, h |-> 9, mi |-> 5],
             [y |-> 1999, m |-> 12, d |-> 31, h |-> 23, mi |-> 59]}
      [] variant = "Tags" ->
            {[group |-> 8, element |-> 24], [group |-> 9, element |-> 16]}
      [] variant = "Empty" -> {}

ValsOf(variant) ==
    CASE variant = "Str" -> [1..1 -> ItemsOf(variant)]
      [] variant = "Empty" -> {<<>>}
      [] OTHER -> SeqsUpTo(ItemsOf(variant), MaxLen)

Primitive(variant, vals) ==
    [kind |-> "Primitive", prim |-> [variant |-> variant, vals |-> vals]]

\* a sequence of n items whose element declares the byte length size
Nested(kind, n, size) == [kind |-> kind, items |-> n, size |-> size]

Element(tag, vr, value, strOk) ==
    [tag |-> tag, vr |-> vr, value |-> value, strOk |-> strOk]

ProbeTag == [group |-> 8, element |-> 8]

(***************************************************************************)
(* The state main() starts from, and the parts a specification leaves idle.*)
(***************************************************************************)
Cli(parallel, include_private, organize_hierarchy, format, max_depth) ==
    [parallel |-> parallel, include_private |-> include_private,
     organize_hierarchy |-> organize_hierarchy, format |-> format,
     max_depth |-> max_depth]

NoRoot == [kind |-> "missing"]

DefaultMaxDepth == 10

DiskFile(path, ext, openable, len, magic, obj) ==
    [path |-> path, ext |-> ext, openable |-> openable, len |-> len,
     magic |-> magic, obj |-> obj]

IdleRun ==
    /\ root = NoRoot
    /\ pc = "idle"
    /\ files = <<>>
    /\ idx = 0
    /\ slots = <<>>
    /\ results = <<>>
    /\ handed = {}
    /\ studies = <<>>
    /\ hidx = 0
    /\ nextId = 0
    /\ written = <<>>
    /\ exit = "running"

IdleValue == elem = None /\ conv = None

runVars == <<root, pc, files, idx, slots, results, handed, studies, hidx,
             nextId, written, exit>>

(***************************************************************************)
(* SpecValue: the value normalizer applied to one decoded element.         *)
(***************************************************************************)
InitValue ==
    /\ IdleRun
    /\ \E format \in OutputFormats :
          cli = Cli(FALSE, FALSE, FALSE, format, DefaultMaxDepth)
    /\ conv = None
    /\ \/ \E variant \in Variants : \E vals \in ValsOf(variant) :
            \E strOk \in BOOLEAN :
               elem = Some(Element(ProbeTag, "UN", Primitive(variant, vals), strOk))
       \/ \E kind \in {"Sequence", "PixelSequence"} : \E n \in 0..MaxLen :
            \E size \in {None, Some(8 * n)} :
               elem = Some(Element(ProbeTag, "SQ", Nested(kind, n, size), FALSE))

ExtractElementValue ==
    /\ elem # None
    /\ conv = None
    /\ conv' = Some(extract_element_value(cli.format, elem[1]))
    /\ UNCHANGED <<cli, elem, runVars>>

NextValue == ExtractElementValue

SpecValue == InitValue /\ [][NextValue]_vars

\* C5: in every non-Raw format, when the native to-string conversion does
\* not succeed, a numeric, string or date/time/datetime vector of length 1
\* is rendered as a JSON scalar and a vector of length N > 1 as a JSON array
\* of exactly N elements, in the original order.
ScalarOf(variant, v) ==
    CASE variant \in IntVariants -> JNum(v)
      [] variant \in FloatVariants -> (IF v.finite THEN JNum(v.n) ELSE JNull)
      [] OTHER -> JStr(ItemText(variant, v))

C5_VectorCollapse ==
    (/\ conv # None
     /\ cli.format # "Raw"
     /\ elem[1].value.kind = "Primitive"
     /\ ~elem[1].strOk
     /\ elem[1].value.prim.variant \in
          IntVariants \cup FloatVariants \cup StringVariants \cup DateVariants)
    => LET p == elem[1].value.prim
           j == conv[1].value
       IN /\ Len(p.vals) = 1 => j.t \in {"number", "string", "null"}
          /\ Len(p.vals) > 1 =>
                /\ j.t = "array"
                /\ Len(j.a) = Len(p.vals)
                /\ \A i \in 1..Len(p.vals) : j.a[i] = ScalarOf(p.variant, p.vals[i])

(***************************************************************************)
(* main() up to the choice of scheduler: fs::create_dir_all, then          *)
(* collect_dicom_files, then the empty check.                              *)
(***************************************************************************)
Discover ==
    /\ pc = "discover"
    /\ \/ /\ exit' = "error: output dir"
          /\ pc' = "done"
          /\ UNCHANGED <<files, slots>>
       \/ LET found == collect_dicom_files(root, cli.max_depth)
          IN IF ~found.ok
             THEN /\ exit' = found.err
                  /\ pc' = "done"
                  /\ UNCHANGED <<files, slots>>
             ELSE /\ files' = found.files
                  /\ IF NoFilesFound(found.files)
                     THEN /\ exit' = "error: No DICOM files found"
                          /\ pc' = "done"
                          /\ UNCHANGED slots
                     ELSE /\ exit' = exit
                          /\ pc' = IF cli.parallel /\ Len(found.files) > 1
                                   THEN "parallel" ELSE "sequential"
                          /\ slots' = IF cli.parallel /\ Len(found.files) > 1
                                      THEN [i \in 1..Len(found.files) |-> None]
                                      ELSE slots
    /\ UNCHANGED <<cli, root, idx, results, handed, studies, hidx, nextId,
                   written, elem, conv>>

(***************************************************************************)
(* process_files_sequential: one action per iteration of its loop, and one *)
(* for its return.                                                         *)
(***************************************************************************)
\* a variant that puts the newest instance first
CollectedInFront(rs, outcome) ==
    IF outcome.ok THEN <<outcome.instance>> \o rs ELSE rs

\* a variant in which a failing file discards what was collected
CollectedUntilFailure(rs, outcome) ==
    IF outcome.ok THEN Append(rs, outcome.instance) ELSE <<>>

\* the match on process_file's result
Collected(rs, outcome) == IF outcome.ok THEN Append(rs, outcome.instance) ELSE rs

SeqStep ==
    /\ pc = "sequential"
    /\ idx < Len(files)
    /\ LET file == files[idx + 1]
           outcome == process_file(cli, file)
       IN /\ handed' = handed \cup {file.path}
          /\ results' = Collected(results, outcome)
    /\ idx' = idx + 1
    /\ UNCHANGED <<cli, root, pc, files, slots, studies, hidx, nextId, written,
                   exit, elem, conv>>

SeqReturn ==
    /\ pc = "sequential"
    /\ idx = Len(files)
    /\ pc' = "output"
    /\ UNCHANGED <<cli, root, files, idx, slots, results, handed, studies, hidx,
                   nextId, written, exit, elem, conv>>

(***************************************************************************)
(* process_files_parallel: the closure of filter_map runs once per file,   *)
(* in any order and on any worker; collect() then gathers the Some(..)     *)
(* items of an indexed parallel iterator in index order.                   *)
(***************************************************************************)
ParStep ==
    /\ pc = "parallel"
    /\ \E i \in 1..Len(files) :
          /\ slots[i] = None
          /\ slots' = [slots EXCEPT ![i] = Some(process_file(cli, files[i]))]
          /\ handed' = handed \cup {files[i].path}
    /\ UNCHANGED <<cli, root, pc, files, idx, results, studies, hidx, nextId,
                   written, exit, elem, conv>>

\* a variant that gathers the items of the first worker chunk only
ParCollectedFirstChunk(outcomes) ==
    IF outcomes = <<>> THEN <<>>
    ELSE IF Head(outcomes)[1].ok THEN <<Head(outcomes)[1].instance>> ELSE <<>>

RECURSIVE ParCollected(_)
ParCollected(outcomes) ==
    IF outcomes = <<>> THEN <<>>
    ELSE Collected(<<>>, Head(outcomes)[1]) \o ParCollected(Tail(outcomes))

ParCollect ==
    /\ pc = "parallel"
    /\ \A i \in 1..Len(files) : slots[i] # None
    /\ results' = ParCollected(slots)
    /\ pc' = "output"
    /\ UNCHANGED <<cli, root, files, idx, slots, handed, studies, hidx, nextId,
                   written, exit, elem, conv>>

(***************************************************************************)
(* save_results.  fs::write either succeeds or fails; a failure is         *)
(* propagated by `?` and ends main() with the error.                       *)
(***************************************************************************)
SaveResults ==
    /\ pc = "output"
    /\ ~cli.organize_hierarchy
    /\ \/ /\ \E doc \in FlatOutputs(cli.format, results, nextId) :
                written' = Insert(written, "dicom_data.json", doc)
          /\ nextId' = IF cli.format = "Comprehensive" THEN nextId + 1 ELSE nextId
          /\ exit' = "ok"
       \/ /\ exit' = "error: write"
          /\ UNCHANGED <<written, nextId>>
    /\ pc' = "done"
    /\ UNCHANGED <<cli, root, files, idx, slots, results, handed, studies, hidx,
                   elem, conv>>

(***************************************************************************)
(* organize_by_hierarchy: one action per iteration of the grouping loop,   *)
(* and one for the loop that writes the studies.  The studies are written  *)
(* in HashMap order; create_dir_all or fs::write can fail at any study,    *)
(* which leaves the studies written before it and ends main().             *)
(***************************************************************************)
GroupStep ==
    /\ pc = "output"
    /\ cli.organize_hierarchy
    /\ hidx < Len(results)
    /\ studies' = GroupInstance(studies, results[hidx + 1], results, nextId)
    /\ nextId' = IF StudyKey(results[hidx + 1]) \in DOMAIN studies
                 THEN nextId ELSE nextId + 1
    /\ hidx' = hidx + 1
    /\ UNCHANGED <<cli, root, pc, files, idx, slots, results, handed, written,
                   exit, elem, conv>>

\* the output files after the studies `keys` were written in some order
StudyFilesWritten(keys) ==
    LET paths == {StudyFile(k) : k \in keys}
    IN {[p \in paths |-> StudyOutput(cli.format, studies[last[p]])] :
          last \in {f \in [paths -> keys] : \A p \in paths : StudyFile(f[p]) = p}}

WriteStudies ==
    /\ pc = "output"
    /\ cli.organize_hierarchy
    /\ hidx = Len(results)
    /\ \/ /\ written' \in StudyFilesWritten(DOMAIN studies)
          /\ exit' = "ok"
       \/ /\ \E keys \in SUBSET (DOMAIN studies) :
                /\ keys # DOMAIN studies
                /\ written' \in StudyFilesWritten(keys)
          /\ exit' = "error: write"
    /\ pc' = "done"
    /\ UNCHANGED <<cli, root, files, idx, slots, results, handed, studies, hidx,
                   nextId, elem, conv>>

(***************************************************************************)
(* SpecExtract: one directly named file with a generated dataset, run      *)
(* through the sequential scheduler and the flat writer.                   *)
(***************************************************************************)
SopElem == Element(SOP_INSTANCE_UID, "UI", Primitive("Str", <<"1.2.1">>), TRUE)
PrivateCreator == Element(Tag(9, 16), "LO", Primitive("Str", <<"ACME">>), TRUE)
PrivateData == Element(Tag(41, 4112), "UN", Primitive("U8", <<0, 7>>), FALSE)
Filler(k) == Element(Tag(24, k), "US", Primitive("U16", <<k>>), k % 2 = 0)

PixelElems(pixel) ==
    CASE pixel = "none" -> <<>>
      [] pixel = "native" ->
            <<Element(PIXEL_DATA, "OW", Primitive("U16", <<0, 7>>), TRUE)>>
      [] pixel = "encapsulated" ->
            <<Element(PIXEL_DATA, "OB", Nested("PixelSequence", 2, None), FALSE)>>
      [] pixel = "empty" ->
            <<Element(PIXEL_DATA, "OB", Primitive("Empty", <<>>), TRUE)>>

\* the elements in ascending tag order, as the decoder iterates them
GeneratedElems(core, nFiller, pixel) ==
    (IF "sop" \in core THEN <<SopElem>> ELSE <<>>)
      \o (IF "creator" \in core THEN <<PrivateCreator>> ELSE <<>>)
      \o [k \in 1..nFiller |-> Filler(k)]
      \o (IF "private" \in core THEN <<PrivateData>> ELSE <<>>)
      \o PixelElems(pixel)

Dataset(elems) == Some([transfer_syntax |-> "1.2.840.10008.1.2.1", elems |-> elems])

DicomFile(path, elems) ==
    DiskFile(path, Some(<<"d", "c", "m">>), TRUE, 4096, DicomMagic, Dataset(elems))

BrokenFile(path) ==
    DiskFile(path, Some(<<"d", "c", "m">>), TRUE, 64, <<>>, None)

InitExtract ==
    /\ IdleValue
    /\ pc = "sequential"
    /\ idx = 0 /\ slots = <<>> /\ results = <<>> /\ handed = {}
    /\ studies = <<>> /\ hidx = 0 /\ nextId = 0 /\ written = <<>>
    /\ exit = "running"
    /\ \E include_private \in BOOLEAN, format \in OutputFormats :
          cli = Cli(FALSE, include_private, FALSE, format, DefaultMaxDepth)
    /\ \/ files = <<BrokenFile("scan.dcm")>>
       \/ \E core \in SUBSET {"sop", "creator", "private"},
             nFiller \in 0..MaxFiller,
             pixel \in {"none", "native", "encapsulated", "empty"} :
               files = <<DicomFile("scan.dcm", GeneratedElems(core, nFiller, pixel))>>
    /\ root = [kind |-> "file", file |-> files[1]]

NextExtract == SeqStep \/ SeqReturn \/ SaveResults

SpecExtract == InitExtract /\ [][NextExtract]_vars

\* the candidate file an instance was extracted from
SourceOf(instance) == CHOOSE i \in 1..Len(files) : files[i].path = instance.file_path

ElemsOf(instance) == files[SourceOf(instance)].obj[1].elems

\* C1: after process_file, every element with an odd tag group is absent
\* from the instance's tag map when include_private is false and present
\* with is_private = true when it is true; every element with an even group
\* is present with is_private = false under either setting.
C1_PrivateFiltering ==
    \A r \in 1..Len(results) :
      LET tags == results[r].metadata.tags
          elems == ElemsOf(results[r])
      IN \A e \in 1..Len(elems) :
           LET key == TagString(elems[e].tag)
           IN IF elems[e].tag.group % 2 = 1
              THEN IF cli.include_private
                   THEN key \in DOMAIN tags /\ tags[key].is_private = TRUE
                   ELSE key \notin DOMAIN tags
              ELSE key \in DOMAIN tags /\ tags[key].is_private = FALSE

HasOddAndEven(instance) ==
    /\ \E e \in 1..Len(ElemsOf(instance)) : ElemsOf(instance)[e].tag.group % 2 = 1
    /\ \E e \in 1..Len(ElemsOf(instance)) : ElemsOf(instance)[e].tag.group % 2 = 0

C1_WitnessKept ==
    /\ cli.include_private
    /\ \E r \in 1..Len(results) :
          /\ HasOddAndEven(results[r])
          /\ "(0029,1010)" \in DOMAIN results[r].metadata.tags

C1_Witness ==
    /\ ~cli.include_private
    /\ \E r \in 1..Len(results) :
          /\ HasOddAndEven(results[r])
          /\ "(0009,0010)" \notin DOMAIN results[r].metadata.tags
          /\ "(0008,0018)" \in DOMAIN results[r].metadata.tags

\* C2: for every successfully processed file, has_pixel_data is true exactly
\* when the dataset holds the pixel-data element, whatever its value.
C2_PixelDataPresence ==
    \A r \in 1..Len(results) :
       results[r].has_pixel_data
         = (\E e \in 1..Len(ElemsOf(results[r])) :
               ElemsOf(results[r])[e].tag = PIXEL_DATA)

\* C6: every instance of the flat Basic document has at most 10 tag entries,
\* each of them a tag of that instance with its value, none of them private,
\* whether or not include_private was set.
C6_BasicCap ==
    (pc = "done" /\ exit = "ok" /\ cli.format = "Basic"
       /\ ~cli.organize_hierarchy)
    => LET doc == written["dicom_data.json"]
       IN /\ Len(doc.instances) = Len(results)
          /\ \A i \in 1..Len(results) :
               LET shown == doc.instances[i].tags
                   tags == results[i].metadata.tags
               IN /\ Cardinality(DOMAIN shown) <= 10
                  /\ \A k \in DOMAIN shown :
                        /\ k \in DOMAIN tags
                        /\ shown[k] = tags[k].value
                        /\ ~tags[k].is_private

C6_Witness ==
    /\ pc = "done" /\ exit = "ok" /\ cli.format = "Basic" /\ cli.include_private
    /\ Len(results) = 1
    /\ Cardinality({k \in DOMAIN results[1].metadata.tags :
                      ~results[1].metadata.tags[k].is_private}) > 10
    /\ \E k \in DOMAIN results[1].metadata.tags :
          results[1].metadata.tags[k].is_private
    /\ Cardinality(DOMAIN written["dicom_data.json"].instances[1].tags) = 10

(***************************************************************************)
(* Datasets for the aggregator and the whole run: kinds 1..7 differ in the *)
(* study UID, the series UID and the descriptive elements they carry.      *)
(***************************************************************************)
TextElem(tag, vr, text, strOk) == Element(tag, vr, Primitive("Str", <<text>>), strOk)

Described(variant) ==
    IF variant = 1
    THEN [date |-> "20200101", modality |-> "CT", patient |-> "P1", number |-> "1"]
    ELSE [date |-> "20210202", modality |-> "MR", patient |-> "P2", number |-> "2"]

\* study, series: None when the element is absent; decodes: the decoder's
\* to_str outcome for the study UID element
StudyElems(study, decodes, series, variant) ==
    <<SopElem,
      TextElem(STUDY_DATE, "DA", Described(variant).date, TRUE),
      TextElem(MODALITY, "CS", Described(variant).modality, TRUE),
      TextElem(PATIENT_ID, "LO", Described(variant).patient, TRUE)>>
      \o (IF study # None
          THEN <<TextElem(STUDY_INSTANCE_UID, "UI", study[1], decodes)>> ELSE <<>>)
      \o (IF series # None
          THEN <<TextElem(SERIES_INSTANCE_UID, "UI", series[1], TRUE)>> ELSE <<>>)
      \o <<TextElem(SERIES_NUMBER, "IS", Described(variant).number, TRUE)>>
      \o (IF variant = 1 THEN PixelElems("native") ELSE <<>>)

KindElems(kind) ==
    CASE kind = 1 -> StudyElems(Some("1.2"), TRUE, Some("2.1"), 1)
      [] kind = 2 -> StudyElems(Some("1.2"), TRUE, Some("2.1"), 2)
      [] kind = 3 -> StudyElems(Some("1.2"), TRUE, Some("2.2"), 1)
      [] kind = 4 -> StudyElems(Some("1_2"), TRUE, Some("2.1"), 2)
      [] kind = 5 -> StudyElems(None, TRUE, Some("2.1"), 1)
      [] kind = 6 -> StudyElems(None, TRUE, None, 2)
      [] kind = 7 -> StudyElems(Some("1.2"), FALSE, Some("2.2"), 1)

Kinds == 1..7

PathOf(i) == "f" \o NatToStr(i)

(***************************************************************************)
(* SpecHier: organize_by_hierarchy over every result list of up to         *)
(* MaxResults instances, entered as main() enters it.                      *)
(***************************************************************************)
InitHier ==
    /\ IdleValue
    /\ pc = "output"
    /\ \E format \in OutputFormats :
          cli = Cli(FALSE, FALSE, TRUE, format, DefaultMaxDepth)
    /\ \E n \in 0..MaxResults : \E kinds \in [1..n -> Kinds] :
          files = [i \in 1..n |-> DicomFile(PathOf(i), KindElems(kinds[i]))]
    /\ root = [kind |-> "dir",
               walk |-> [i \in 1..Len(files) |->
                           [kind |-> "file", depth |-> 1, file |-> files[i]]]]
    /\ results = [i \in 1..Len(files) |-> process_file(cli, files[i]).instance]
    /\ idx = Len(files)
    /\ handed = {files[i].path : i \in 1..Len(files)}
    /\ slots = <<>> /\ studies = <<>> /\ hidx = 0 /\ nextId = 0
    /\ written = <<>> /\ exit = "running"

NextHier == GroupStep \/ WriteStudies

SpecHier == InitHier /\ [][NextHier]_vars

(***************************************************************************)
(* SpecDiscover: discovery over every directory walk of up to MaxEntries   *)
(* items.                                                                  *)
(***************************************************************************)
Extensions == {None, Some(<<"D", "C", "M">>), Some(<<"t", "x", "t">>)}

\* [openable, len, magic]
Contents ==
    {[openable |-> FALSE, len |-> 4096, magic |-> DicomMagic],
     [openable |-> TRUE, len |-> 131, magic |-> <<>>],
     [openable |-> TRUE, len |-> 132, magic |-> DicomMagic],
     [openable |-> TRUE, len |-> 4096, magic |-> <<"d", "i", "c", "m">>]}

WalkItems(path) ==
    {[kind |-> "file", depth |-> depth,
      file |-> DiskFile(path, ext, c.openable, c.len, c.magic, None)] :
        depth \in {1, 2}, ext \in Extensions, c \in Contents}
    \cup {[kind |-> kind, depth |-> 1,
           file |-> DiskFile(path, None, FALSE, 0, <<>>, None)] :
             kind \in {"dir", "symlink", "error"}}

InitDiscover ==
    /\ IdleValue
    /\ pc = "discover"
    /\ \E max_depth \in {1, DefaultMaxDepth} :
          cli = Cli(FALSE, FALSE, FALSE, "Comprehensive", max_depth)
    /\ \E n \in 0..MaxEntries :
          \E walk \in [1..n -> UNION {WalkItems(PathOf(i)) : i \in 1..n}] :
             /\ \A i \in 1..n : walk[i].file.path = PathOf(i)
             /\ root = [kind |-> "dir", walk |-> walk]
    /\ files = <<>> /\ idx = 0 /\ slots = <<>> /\ results = <<>> /\ handed = {}
    /\ studies = <<>> /\ hidx = 0 /\ nextId = 0 /\ written = <<>>
    /\ exit = "running"

NextDiscover == Discover

SpecDiscover == InitDiscover /\ [][NextDiscover]_vars

(***************************************************************************)
(* Spec: the whole run of main() from an input path that is missing, a     *)
(* single file, an archive or a directory.                                 *)
(***************************************************************************)
Junk(path) == DiskFile(path, Some(<<"t", "x", "t">>), TRUE, 16, <<>>, None)

\* a signature but no known extension
Sniffed(path, elems) == DiskFile(path, None, TRUE, 4096, DicomMagic, Dataset(elems))

RunFiles(path) ==
    {DicomFile(path, KindElems(1)), Sniffed(path, KindElems(4)),
     BrokenFile(path), Junk(path)}

ZipEntries(path) ==
    {[is_dir |-> TRUE, extracts |-> TRUE, file |-> Junk(path)],
     [is_dir |-> FALSE, extracts |-> FALSE, file |-> Junk(path)]}
    \cup {[is_dir |-> FALSE, extracts |-> TRUE, file |-> f] : f \in RunFiles(path)}

ZipFile(readable, entries) ==
    [path |-> "in.zip", ext |-> Some(<<"Z", "i", "p">>), openable |-> TRUE,
     len |-> 4096, magic |-> <<>>, obj |-> None,
     archive |-> [readable |-> readable, entries |-> entries]]

Roots ==
    {NoRoot}
    \cup {[kind |-> "file", file |-> f] : f \in RunFiles("f1")}
    \cup {[kind |-> "file", file |-> ZipFile(readable, <<e>>)] :
            readable \in BOOLEAN, e \in ZipEntries("f1")}
    \cup {[kind |-> "dir", walk |-> <<>>]}
    \cup UNION {{[kind |-> "dir",
                  walk |-> [i \in 1..n |->
                              [kind |-> "file", depth |-> 1, file |-> pick[i]]]] :
                   pick \in {p \in [1..n -> UNION {RunFiles(PathOf(i)) : i \in 1..n}] :
                               \A i \in 1..n : p[i].path = PathOf(i)}} :
                n \in 1..MaxFiles}

Init ==
    /\ IdleValue
    /\ pc = "discover"
    /\ root \in Roots
    /\ \E parallel \in BOOLEAN, hierarchy \in BOOLEAN, format \in OutputFormats :
          cli = Cli(parallel, FALSE, hierarchy, format, DefaultMaxDepth)
    /\ files = <<>> /\ idx = 0 /\ slots = <<>> /\ results = <<>> /\ handed = {}
    /\ studies = <<>> /\ hidx = 0 /\ nextId = 0 /\ written = <<>>
    /\ exit = "running"

Next ==
    \/ Discover
    \/ SeqStep
    \/ SeqReturn
    \/ ParStep
    \/ ParCollect
    \/ GroupStep
    \/ WriteStudies
    \/ SaveResults

Spec == Init /\ [][Next]_vars

(***************************************************************************)
(* Properties of the aggregator (SpecHier).                                *)
(***************************************************************************)
\* the raw text stored for a tag key, None when the key is absent
RawOf(instance, key) ==
    IF key \in DOMAIN instance.metadata.tags
    THEN instance.metadata.tags[key].raw_value ELSE None

ResolvedStudy(i) ==
    IF RawOf(results[i], "(0020,000D)") # None
    THEN RawOf(results[i], "(0020,000D)")[1] ELSE "unknown_study"

ResolvedSeries(i) ==
    IF RawOf(results[i], "(0020,000E)") # None
    THEN RawOf(results[i], "(0020,000E)")[1] ELSE "unknown_series"

InSeries(instance, series) ==
    \E n \in 1..Len(series.instances) : series.instances[n] = instance

\* C3: instances that resolve to the same study key are all placed in one
\* Study record, with one Series entry per distinct series key among them;
\* all instances for which no study UID can be resolved are placed in the
\* single Study keyed "unknown_study", however many there are.
C3_Grouping ==
    (pc = "output" /\ cli.organize_hierarchy)
    => /\ DOMAIN studies = {ResolvedStudy(i) : i \in 1..hidx}
       /\ \A k \in DOMAIN studies :
             /\ studies[k].study_instance_uid = k
             /\ DOMAIN studies[k].series
                  = {ResolvedSeries(i) : i \in {j \in 1..hidx : ResolvedStudy(j) = k}}
       /\ \A i \in 1..hidx :
             /\ InSeries(results[i], studies[ResolvedStudy(i)].series[ResolvedSeries(i)])
             /\ RawOf(results[i], "(0020,000D)") = None
                  => InSeries(results[i],
                              studies["unknown_study"].series[ResolvedSeries(i)])

C3_Witness ==
    /\ pc = "output" /\ hidx = 3
    /\ "1.2" \in DOMAIN studies
    /\ DOMAIN studies["1.2"].series = {"2.1", "2.2"}
    /\ "unknown_study" \in DOMAIN studies

C3_WitnessBucket ==
    /\ pc = "output" /\ hidx = 3
    /\ DOMAIN studies = {"unknown_study"}
    /\ SumOver(InstanceCount, SeriesOf(studies["unknown_study"])) = 3

\* C4: once a Study (resp. Series) record exists for a key, grouping a later
\* instance leaves its study_date, study_time, study_description,
\* patient_info and processing_info (resp. series_number,
\* series_description and modality) unchanged; an existing series changes
\* only by the instance being appended to the end of its instances.
StudyFields(study) ==
    <<study.study_instance_uid, study.study_date, study.study_time,
      study.study_description, study.patient_info, study.processing_info>>

SeriesFields(series) ==
    <<series.series_instance_uid, series.series_number,
      series.series_description, series.modality>>

C4_FirstSeenWins ==
    [][\A k \in DOMAIN studies :
          /\ k \in DOMAIN studies'
          /\ StudyFields(studies'[k]) = StudyFields(studies[k])
          /\ \A x \in DOMAIN studies[k].series :
                /\ x \in DOMAIN studies'[k].series
                /\ SeriesFields(studies'[k].series[x])
                     = SeriesFields(studies[k].series[x])
                /\ \/ studies'[k].series[x].instances
                        = studies[k].series[x].instances
                   \/ /\ hidx < Len(results)
                      /\ studies'[k].series[x].instances
                           = Append(studies[k].series[x].instances,
                                    results[hidx + 1])]_vars

\* a later instance with another study date and another modality has been
\* appended to an existing series of an existing study
C4_Witness ==
    \E k \in DOMAIN studies : \E x \in DOMAIN studies[k].series :
       LET series == studies[k].series[x]
       IN /\ Len(series.instances) >= 2
          /\ RawOf(series.instances[2], "(0008,0020)") # studies[k].study_date
          /\ RawOf(series.instances[2], "(0008,0060)") # series.modality
          /\ RawOf(series.instances[1], "(0008,0020)") = studies[k].study_date
          /\ RawOf(series.instances[1], "(0008,0060)") = series.modality

(***************************************************************************)
(* Properties of the whole run (Spec).                                     *)
(***************************************************************************)
Succeeding == {i \in 1..Len(files) : files[i].obj # None}

RECURSIVE SequentialResults(_, _)
SequentialResults(config, fs) ==
    IF fs = <<>> THEN <<>>
    ELSE LET before == SequentialResults(config, SubSeq(fs, 1, Len(fs) - 1))
             outcome == process_file(config, fs[Len(fs)])
         IN IF outcome.ok THEN Append(before, outcome.instance) ELSE before

Range(q) == {q[i] : i \in 1..Len(q)}

ScheduledParallel == cli.parallel /\ Len(files) > 1

\* C7: under every interleaving of the workers process_files_parallel
\* returns the same set of instances as process_files_sequential: exactly
\* one instance per file whose extraction succeeds, none for a file whose
\* extraction fails, and no duplicates.
C7_ParallelEqualsSequential ==
    (pc \in {"output", "done"} /\ ScheduledParallel)
    => /\ Range(results) = Range(SequentialResults(cli, files))
       /\ Len(results) = Cardinality(Succeeding)
       /\ \A i \in 1..Len(files) :
             Cardinality({r \in 1..Len(results) :
                            results[r].file_path = files[i].path})
               = IF i \in Succeeding THEN 1 ELSE 0

C7_Witness ==
    /\ pc = "output" /\ ScheduledParallel
    /\ Len(files) = 3
    /\ Len(results) = 2
    /\ files[1].obj = None

\* C8: a file whose extraction fails never aborts the batch: every other
\* candidate is still processed, the scheduler returns with the failing
\* files excluded from the results, and the run writes its output and ends
\* successfully (unless the write itself fails), even when every candidate
\* fails extraction.
C8_FailureIsolated ==
    /\ pc \in {"sequential", "parallel", "output"} => exit = "running"
    /\ pc \in {"output", "done"} /\ files # <<>> =>
          /\ handed = {files[i].path : i \in 1..Len(files)}
          /\ {results[r].file_path : r \in 1..Len(results)}
               = {files[i].path : i \in Succeeding}
    /\ pc = "done" /\ files # <<>> =>
          /\ exit \in {"ok", "error: write"}
          /\ exit = "ok" =>
                IF cli.organize_hierarchy
                THEN \A r \in 1..Len(results) :
                        StudyFile(ResolvedStudy(r)) \in DOMAIN written
                ELSE /\ DOMAIN written = {"dicom_data.json"}
                     /\ cli.format = "Comprehensive" =>
                           written["dicom_data.json"].instances = results

C8_Witness ==
    /\ pc = "done" /\ exit = "ok"
    /\ Len(files) = 3 /\ Succeeding = {}
    /\ handed = {"f1", "f2", "f3"}
    /\ results = <<>>
    /\ "dicom_data.json" \in DOMAIN written

HasKnownExtension(file) ==
    file.ext # None /\
      file.ext[1] \in {<<"D", "C", "M">>, <<"d", "c", "m">>, <<"i", "m", "a">>,
                       <<"i", "m", "g">>, <<"d", "i", "c", "o", "m">>}

HasSignature(file) == file.openable /\ file.len >= 132 /\ file.magic = DicomMagic

Qualifies(file) == HasKnownExtension(file) \/ HasSignature(file)

DiscoveredNothing ==
    \/ root.kind = "missing"
    \/ root.kind = "dir" /\
         \A i \in 1..Len(root.walk) :
            ~(root.walk[i].kind = "file" /\ root.walk[i].depth <= cli.max_depth
                /\ Qualifies(root.walk[i].file))
    \/ root.kind = "file" /\ "archive" \in DOMAIN root.file /\
         root.file.archive.readable /\
         \A i \in 1..Len(root.file.archive.entries) :
            \/ root.file.archive.entries[i].is_dir
            \/ /\ root.file.archive.entries[i].extracts
               /\ ~Qualifies(root.file.archive.entries[i].file)

\* C9: when the input path does not exist, or discovery returns zero
\* candidate files, the run ends in a fatal error: no file is handed to the
\* extractor and no output file is written.
C9_FatalBeforeExtraction ==
    (pc # "discover" /\ DiscoveredNothing)
    => /\ pc = "done"
       /\ exit \in {"error: output dir", "error: Input path does not exist",
                    "error: No DICOM files found"}
       /\ handed = {}
       /\ written = <<>>

C9_Witness ==
    /\ pc = "done"
    /\ exit = "error: No DICOM files found"
    /\ root.kind = "dir" /\ Len(root.walk) = 2
    /\ handed = {} /\ written = <<>>

C9_WitnessMissing ==
    /\ pc = "done"
    /\ exit = "error: Input path does not exist"
    /\ root.kind = "missing"

(***************************************************************************)
(* Properties of discovery (SpecDiscover).                                 *)
(***************************************************************************)
Listed(file) == \E i \in 1..Len(files) : files[i] = file

\* C10: for a directory root, a regular file within the depth bound is in
\* the candidate list if and only if its extension is a known dataset
\* extension or its bytes 128..131 are "DICM"; a file with neither
\* (unopenable or shorter than 132 bytes included) is excluded without an
\* error being raised.
C10_CandidatePredicate ==
    (pc # "discover" /\ root.kind = "dir" /\ exit # "error: output dir")
    => /\ exit \in {"running", "error: No DICOM files found"}
       /\ exit = "error: No DICOM files found" <=> files = <<>>
       /\ \A i \in 1..Len(root.walk) :
             (root.walk[i].kind = "file" /\ root.walk[i].depth <= cli.max_depth)
             => (Listed(root.walk[i].file)
                   <=> Qualifies(root.walk[i].file))

C10_Witness ==
    /\ pc = "sequential" /\ root.kind = "dir" /\ Len(root.walk) = 2
    /\ Len(files) = 1
    /\ root.walk[1].kind = "file" /\ root.walk[2].kind = "file"
    /\ files[1] = root.walk[2].file
    /\ files[1].ext = Some(<<"t", "x", "t">>)
    /\ files[1].magic = DicomMagic
    /\ ~root.walk[1].file.openable
    /\ root.walk[1].file.ext = None

(***************************************************************************)
(* Properties of the hierarchical writer (SpecHier).                       *)
(***************************************************************************)
\* C11: in hierarchical mode the run leaves exactly one study.json per
\* Study record: distinct study keys are written to distinct
\* study_<sanitized-uid> directories, so no study's output is overwritten
\* by another study's output.
C11_OneFilePerStudy ==
    (pc = "done" /\ exit = "ok" /\ cli.organize_hierarchy)
    => /\ Cardinality(DOMAIN written) = Cardinality(DOMAIN studies)
       /\ \A k1 \in DOMAIN studies : \A k2 \in DOMAIN studies :
             k1 # k2 => StudyFile(k1) # StudyFile(k2)
       /\ \A k \in DOMAIN studies :
             /\ StudyFile(k) \in DOMAIN written
             /\ written[StudyFile(k)] = StudyOutput(cli.format, studies[k])

(***************************************************************************)
(* Ordering of the sequential scheduler (Spec).                            *)
(***************************************************************************)
\* position of a path in the candidate list
CandidateIndex(path) == CHOOSE i \in 1..Len(files) : files[i].path = path

\* C12: in sequential mode the result list preserves discovery order: the
\* file paths of the returned instances form a subsequence of the candidate
\* list.
C12_SequentialOrder ==
    (pc \in {"sequential", "output", "done"} /\ ~ScheduledParallel)
    => /\ \A r \in 1..Len(results) :
             \E i \in 1..Len(files) : files[i].path = results[r].file_path
       /\ \A r1 \in 1..Len(results) : \A r2 \in 1..Len(results) :
             r1 < r2 => CandidateIndex(results[r1].file_path)
                          < CandidateIndex(results[r2].file_path)

C12_Witness ==
    /\ pc = "output" /\ ~ScheduledParallel
    /\ Len(files) = 3 /\ files[2].obj = None
    /\ Len(results) = 2
    /\ results[1].file_path = files[1].path
    /\ results[2].file_path = files[3].path

(***************************************************************************)
(* Further properties of the value normalizer (SpecValue).                 *)
(***************************************************************************)
\* C13: in every non-Raw format, when the native to-string conversion does
\* not succeed, a tag-reference vector of length 1 is rendered as the single
\* JSON string "(GGGG,EEEE)" and a vector of length N > 1 as a JSON array of
\* N such strings in order.
C13_TagsCollapse ==
    (/\ conv # None
     /\ cli.format # "Raw"
     /\ elem[1].value.kind = "Primitive"
     /\ ~elem[1].strOk
     /\ elem[1].value.prim.variant = "Tags")
    => LET vals == elem[1].value.prim.vals
           j == conv[1].value
       IN /\ Len(vals) = 1 => j = JStr(TagString(vals[1]))
          /\ Len(vals) > 1 =>
                /\ j.t = "array"
                /\ Len(j.a) = Len(vals)
                /\ \A i \in 1..Len(vals) : j.a[i] = JStr(TagString(vals[i]))

\* C14: in every non-Raw format a nested sequence of n items is rendered as
\* the JSON array "Sequence Item 1", ..., "Sequence Item n", for every n >= 0.
C14_SequencePlaceholders ==
    (/\ conv # None
     /\ cli.format # "Raw"
     /\ elem[1].value.kind = "Sequence")
    => /\ conv[1].value.t = "array"
       /\ Len(conv[1].value.a) = elem[1].value.items
       /\ \A k \in 1..Len(conv[1].value.a) :
             conv[1].value.a[k] = JStr("Sequence Item " \o NatToStr(k))

(***************************************************************************)
(* Error propagation in discovery (SpecDiscover).                          *)
(***************************************************************************)
WalkErrorMet ==
    /\ root.kind = "dir"
    /\ \E i \in 1..Len(root.walk) :
          root.walk[i].kind = "error" /\ root.walk[i].depth <= cli.max_depth

\* C15: the per-file extraction step is the only place where a failure
\* becomes a non-fatal outcome: an error during discovery, an error on an
\* entry met while walking the directory tree included, terminates the run
\* with an error instead of being silently skipped.
C15_DiscoveryErrorsFatal ==
    /\ exit \notin {"running", "ok"} => pc = "done"
    /\ (pc # "discover" /\ WalkErrorMet)
         => (pc = "done" /\ exit \notin {"running", "ok"})

(***************************************************************************)
(* The grouping as a partition (SpecHier) and the totals it records (Spec).*)
(***************************************************************************)
\* the places <<study key, series key, position>> that hold an instance
PlacesOf(instance) ==
    {place \in UNION {UNION {{<<k, x, n>> :
                                n \in 1..Len(studies[k].series[x].instances)} :
                             x \in DOMAIN studies[k].series} :
                      k \in DOMAIN studies} :
       studies[place[1]].series[place[2]].instances[place[3]] = instance}

GroupedCount ==
    SumOver(LAMBDA k : SumOver(InstanceCount, SeriesOf(studies[k])), DOMAIN studies)

\* C16: the grouping is a partition of the result list: every instance is
\* in exactly one Series of exactly one Study, those of its resolved keys,
\* none is dropped or duplicated, the series' instance counts add up to the
\* length of the result list, and no Study or Series is empty.
C16_Partition ==
    (pc = "output" /\ cli.organize_hierarchy)
    => /\ \A i \in 1..hidx :
             PlacesOf(results[i])
               \subseteq {<<ResolvedStudy(i), ResolvedSeries(i), n>> : n \in 1..hidx}
             /\ Cardinality(PlacesOf(results[i])) = 1
       /\ GroupedCount = hidx
       /\ hidx = Len(results) => GroupedCount = Len(results)
       /\ \A k \in DOMAIN studies :
             /\ DOMAIN studies[k].series # {}
             /\ \A x \in DOMAIN studies[k].series :
                   Len(studies[k].series[x].instances) >= 1

C16_Witness ==
    /\ pc = "output" /\ cli.organize_hierarchy
    /\ hidx = 3 /\ Len(results) = 3
    /\ Cardinality(DOMAIN studies) = 2
    /\ \E k \in DOMAIN studies : Cardinality(DOMAIN studies[k].series) = 2
    /\ GroupedCount = 3

\* C17: in hierarchical mode every Study's processing_info carries whole-run
\* totals: total_files and successful_files equal the length of the entire
\* result list, files_with_pixel_data counts over the entire result list,
\* and failed_files is 0 however many candidate files failed extraction.
C17_WholeRunTotals ==
    cli.organize_hierarchy
    => \A k \in DOMAIN studies :
          LET info == studies[k].processing_info
          IN /\ info.total_files = Len(results)
             /\ info.successful_files = Len(results)
             /\ info.failed_files = 0
             /\ info.extraction_summary.files_with_pixel_data
                  = Cardinality({i \in 1..Len(results) : results[i].has_pixel_data})

C17_Witness ==
    /\ cli.organize_hierarchy /\ pc = "done" /\ exit = "ok"
    /\ Len(files) = 3 /\ Cardinality(Succeeding) = 2
    /\ Cardinality(DOMAIN studies) = 2
    /\ \A k \in DOMAIN studies :
          /\ studies[k].processing_info.total_files = 2
          /\ studies[k].processing_info.failed_files = 0
          /\ SumOver(InstanceCount, SeriesOf(studies[k])) = 1

====
